---- MODULE Spec2Model ----
(***************************************************************************)
(* A model of scripts/sync-letterboxd-to-notion.js: one pass over a        *)
(* Letterboxd RSS feed that creates a Notion page for every feed item not  *)
(* yet in the database, optionally enriched from TMDB.                     *)
(*                                                                         *)
(* JavaScript values are tagged records: Null, Undefined, Str(s), Num(n).  *)
(* A string is a sequence of one-character strings; URLs, dates and names  *)
(* whose characters no code inspects are written as one-token sequences.   *)
(* Ratings are held in half-star units (Num(7) is 3.5), since the only     *)
(* arithmetic on them is adding 1 or 0.5.                                  *)
(*                                                                         *)
(* An action is the code that runs between two awaits of main(): the       *)
(* completion of the awaited call, then everything up to the next await.   *)
(***************************************************************************)
EXTENDS Integers, Sequences, FiniteSets, TLC

VARIABLES
    feed,       \* the items of the RSS document, in document order
    tmdbKey,    \* TMDB_API_KEY: Str(..) or Null when unset
    store,      \* the Notion database: the pages' properties, in creation order
    pc,         \* per run: the await main() is suspended at
    idx,        \* per run: position of the for-of loop in items
    loc,        \* per run: the loop body's locals once the dedupe query is back
    inflight,   \* network calls issued and not yet settled
    log,        \* per run: the settled network calls, in order, with outcomes
    exitCode,   \* per run: the process exit code, Null while running
    tIn,        \* title normalisation: the raw title and the parts it was built from
    tOut        \* title normalisation: what parseRssTitle and starsToNumber returned

vars == <<feed, tmdbKey, store, pc, idx, loc, inflight, log, exitCode, tIn, tOut>>

runVars == <<feed, tmdbKey, store, pc, idx, loc, inflight, log, exitCode>>

titleVars == <<tIn, tOut>>

----------------------------------------------------------------------------
(* Bounds of the model *)

MaxItems == 3

MaxRaceItems == 1

MaxTitleLen == 5

MaxStars == 2

----------------------------------------------------------------------------
(* JavaScript values *)

Null == [null |-> TRUE]

Undefined == [undefined |-> TRUE]

Str(s) == [str |-> s]

Num(n) == [num |-> n]

\* ToBoolean on the values the script handles: null, undefined, "" and 0 are falsy
Truthy(v) == v # Null /\ v # Undefined /\ v # Str(<<>>) /\ v # Num(0)

\* a || b
OrElse(a, b) == IF Truthy(a) THEN a ELSE b

----------------------------------------------------------------------------
(* String helpers of the JavaScript runtime used by parseRssTitle *)

WhiteSpace == {" ", "\t", "\n"}

LineTerminator == {"\n"}

Digit == {"0", "1", "2", "3", "4", "5", "6", "7", "8", "9"}

Separator == <<" ", "-", " ">>

\* The two rating glyphs, U+2605 and U+00BD, each one character of the title
FullStar == "STAR"

HalfStar == "HALF"

RECURSIVE TrimStart(_)
TrimStart(s) ==
    IF s # <<>> /\ Head(s) \in WhiteSpace THEN TrimStart(Tail(s)) ELSE s

RECURSIVE TrimEnd(_)
TrimEnd(s) ==
    IF s # <<>> /\ s[Len(s)] \in WhiteSpace
    THEN TrimEnd(SubSeq(s, 1, Len(s) - 1))
    ELSE s

\* String.prototype.trim
Trim(s) == TrimEnd(TrimStart(s))

\* String.prototype.split with a non-empty string separator: every
\* non-overlapping occurrence, scanning from the left, cuts the string
RECURSIVE Split(_, _)
Split(s, sep) ==
    LET n == Len(sep)
        hits == {i \in 1..(Len(s) - n + 1) : SubSeq(s, i, i + n - 1) = sep}
    IN  IF hits = {}
        THEN <<s>>
        ELSE LET i == CHOOSE j \in hits : \A k \in hits : j <= k
             IN  <<SubSeq(s, 1, i - 1)>> \o Split(SubSeq(s, i + n, Len(s)), sep)

\* left.match(/^(.*),\s(\d{4})$/): the groups m[1] and m[2], or Null.
\* The suffix ",\s\d{4}" has a fixed length, so the greedy (.*) is the rest,
\* which must hold no line terminator.
MatchTitleYear(left) ==
    LET n == Len(left)
    IN  IF /\ n >= 6
           /\ \A i \in (n - 3)..n : left[i] \in Digit
           /\ left[n - 4] \in WhiteSpace
           /\ left[n - 5] = ","
           /\ \A i \in 1..(n - 6) : left[i] \notin LineTerminator
        THEN [g1 |-> SubSeq(left, 1, n - 6), g2 |-> SubSeq(left, n - 3, n)]
        ELSE Null

----------------------------------------------------------------------------
(* The item normalizer *)

parseRssTitle(rawTitle) ==
    LET s     == Trim(OrElse(rawTitle, Str(<<>>)).str)
        parts == Split(s, Separator)
        left  == Trim(parts[1])
        stars == IF Len(parts) >= 2 THEN Str(Trim(parts[2])) ELSE Undefined
        m     == MatchTitleYear(left)
    IN  [title |-> OrElse(Str(IF m # Null THEN m.g1 ELSE left), Str(s)),
         year  |-> IF m # Null THEN Str(m.g2) ELSE Null,
         stars |-> OrElse(stars, Null)]

RECURSIVE StarsSum(_)
StarsSum(chars) ==
    IF chars = <<>>
    THEN 0
    ELSE (IF Head(chars) = FullStar THEN 2 ELSE 0)
         + (IF Head(chars) = HalfStar THEN 1 ELSE 0)
         + StarsSum(Tail(chars))

starsToNumber(stars) ==
    IF ~Truthy(stars) THEN Null ELSE OrElse(Num(StarsSum(stars.str)), Null)

\* One node of the parsed description markup, in document order
ImgSrc(el) == IF el.tag = "img" THEN OrElse(el.src, Null) ELSE Null

posterFromRssDescription(html) ==
    LET imgs == {i \in 1..Len(html) : html[i].tag = "img"}
    IN  IF imgs = {}
        THEN Null
        ELSE ImgSrc(html[CHOOSE i \in imgs : \A k \in imgs : i <= k])

----------------------------------------------------------------------------
(* The metadata service *)

\* What an awaited call can come back with: a value, or an exception
Return(v) == [returned |-> v]

Throw == [thrown |-> TRUE]

\* fetch() rejects, or resolves to a response whose body is JSON or is not
Rejected == [kind |-> "reject"]

Response(ok, body) == [kind |-> "response", ok |-> ok, body |-> body]

NotJson == [notjson |-> TRUE]

TmdbHits ==
    {[id |-> Num(7), poster_path |-> Null],
     [id |-> Num(7), poster_path |-> Str(<<"/p.jpg">>)]}

SearchResponses ==
    {Rejected, Response(FALSE, NotJson), Response(TRUE, NotJson),
     Response(TRUE, [results |-> <<>>])}
    \cup {Response(TRUE, [results |-> <<h>>]) : h \in TmdbHits}

Crews ==
    {<<[job |-> "Writer", name |-> Str(<<"W">>)]>>,
     <<[job |-> "Writer", name |-> Str(<<"W">>)],
       [job |-> "Director", name |-> Str(<<"D">>)]>>}

CreditsResponses ==
    {Rejected, Response(FALSE, NotJson), Response(TRUE, NotJson)}
    \cup {Response(TRUE, [crew |-> c]) : c \in Crews}

tmdbSearchMovie(res) ==
    IF res = Rejected THEN Throw
    ELSE IF ~res.ok THEN Return(Null)
    ELSE IF res.body = NotJson THEN Throw
    ELSE Return(IF res.body.results = <<>> THEN Null
                ELSE OrElse(res.body.results[1], Null))

tmdbGetDirector(res) ==
    IF res = Rejected THEN Throw
    ELSE IF ~res.ok THEN Return(Null)
    ELSE IF res.body = NotJson THEN Throw
    ELSE LET crew == res.body.crew
             dirs == {i \in 1..Len(crew) : crew[i].job = "Director"}
         IN  Return(IF dirs = {} THEN Null
                    ELSE OrElse(crew[CHOOSE i \in dirs : \A k \in dirs : i <= k].name,
                                Null))

ImageHost == <<"https://image.tmdb.org/t/p/w500">>

tmdbPosterUrl(posterPath) ==
    IF ~Truthy(posterPath) THEN Null ELSE Str(ImageHost \o posterPath.str)

----------------------------------------------------------------------------
(* The destination store *)

PropertyNames ==
    {"Name", "Author", "Date Read/Watched", "My Rating", "Goals", "Status",
     "media type", "Format", "Letterboxd URL", "Image"}

\* The props object of notionCreateMoviePage before the undefined ones are deleted
RawProps(a) ==
    [k \in PropertyNames |->
        CASE k = "Name" -> [title |-> <<a.title>>]
          [] k = "Author" ->
                IF Truthy(a.director) THEN [rich_text |-> <<a.director>>]
                ELSE [rich_text |-> <<>>]
          [] k = "Date Read/Watched" ->
                IF Truthy(a.watchedDate) THEN [date |-> [start |-> a.watchedDate]]
                ELSE Undefined
          [] k = "My Rating" ->
                IF a.rating # Null /\ a.rating # Undefined THEN [number |-> a.rating]
                ELSE Undefined
          [] k = "Goals" -> [rich_text |-> <<a.goals>>]
          [] k = "Status" -> [select |-> a.status]
          [] k = "media type" -> [select |-> a.mediaType]
          [] k = "Format" -> [select |-> a.format]
          [] k = "Letterboxd URL" -> [url |-> a.letterboxdUrl]
          [] k = "Image" ->
                IF Truthy(a.posterUrl) THEN [files |-> <<[url |-> a.posterUrl]>>]
                ELSE Undefined]

\* The properties sent with the undefined ones left in
notionCreateMoviePageKeepUndefined(a) == RawProps(a)

\* The properties sent to notion.pages.create
notionCreateMoviePage(a) ==
    LET props == RawProps(a)
    IN  [k \in {n \in PropertyNames : props[n] # Undefined} |-> props[k]]

\* The query filtering on the title property instead of the URL property
notionFindByName(letterboxdUrl, pages) ==
    LET hits == {i \in 1..Len(pages) : pages[i]["Name"].title[1] = letterboxdUrl}
    IN  IF hits = {} THEN Null ELSE pages[CHOOSE i \in hits : \A k \in hits : i <= k]

\* notion.databases.query with the url-equals filter and page_size 1
notionFindByLetterboxdUrl(letterboxdUrl, pages) ==
    LET hits == {i \in 1..Len(pages) : pages[i]["Letterboxd URL"].url = letterboxdUrl}
    IN  IF hits = {} THEN Null ELSE pages[CHOOSE i \in hits : \A k \in hits : i <= k]

----------------------------------------------------------------------------
(* Inputs: the feed documents, the configuration, the store at start *)

Runs == {1, 2}

\* "Up, 1986 - " and three and a half stars
RatedTitle ==
    <<"U", "p", ",", " ", "1", "9", "8", "6", " ", "-", " ",
      FullStar, FullStar, FullStar, HalfStar>>

LinkA == Str(<<"https://letterboxd.com/u/film/a/">>)

LinkB == Str(<<"https://letterboxd.com/u/film/b/">>)

\* A rated, dated entry whose description embeds a poster
ItemA ==
    [title |-> Str(RatedTitle), link |-> LinkA,
     watchedDate |-> Str(<<"2024-01-02">>),
     description |-> <<[tag |-> "p"], [tag |-> "img", src |-> Str(<<"rss/a.jpg">>)]>>]

\* An unrated entry with no watched date and no image
ItemB ==
    [title |-> Str(<<"U", "p">>), link |-> LinkB,
     watchedDate |-> Undefined,
     description |-> <<[tag |-> "p"]>>]

\* An entry with no link element
ItemC ==
    [title |-> Str(RatedTitle), link |-> Undefined,
     watchedDate |-> Str(<<"2024-01-03">>),
     description |-> <<>>]

Items == {ItemA, ItemB, ItemC}

Feeds(n) == UNION {[1..k -> Items] : k \in 0..n}

Keys == {Null, Str(<<"tmdb-key">>)}

\* A page synced by an earlier run
PageA ==
    notionCreateMoviePage(
        [title |-> Str(<<"U", "p">>), director |-> Null,
         watchedDate |-> Str(<<"2024-01-02">>), rating |-> Num(7),
         posterUrl |-> Null, goals |-> Str(<<"certified cinephile">>),
         status |-> Str(<<"watched">>), mediaType |-> Str(<<"movie">>),
         format |-> Str(<<"movie">>), letterboxdUrl |-> LinkA])

InitialStores == {<<>>, <<PageA>>}

----------------------------------------------------------------------------
(* main() *)

\* The reads at the top of the loop body
RawTitleOf(item) == OrElse(item.title, Str(<<>>))

LinkOf(item) == OrElse(item.link, Str(<<>>))

WatchedDateOf(item) == OrElse(item.watchedDate, Null)

DescriptionOf(item) == item.description

\* The first position at or after i whose item has a link: `if (!link) continue`
RECURSIVE NextLinked(_, _)
NextLinked(items, i) ==
    IF i > Len(items) THEN i
    ELSE IF ~Truthy(LinkOf(items[i])) THEN NextLinked(items, i + 1)
    ELSE i

Pending(r, kind) == {c \in inflight : c.run = r /\ c.kind = kind}

Settle(r, entry) == log' = [log EXCEPT ![r] = Append(@, entry)]

\* The catch handler logs the error and leaves the exit code alone
AbortExitZero(r, fl) ==
    /\ pc' = [pc EXCEPT ![r] = "exited"]
    /\ exitCode' = [exitCode EXCEPT ![r] = Num(0)]
    /\ loc' = [loc EXCEPT ![r] = Null]
    /\ inflight' = fl
    /\ UNCHANGED idx

\* An exception reaches main().catch: console.error, process.exit(1)
Abort(r, fl) ==
    /\ pc' = [pc EXCEPT ![r] = "exited"]
    /\ exitCode' = [exitCode EXCEPT ![r] = Num(1)]
    /\ loc' = [loc EXCEPT ![r] = Null]
    /\ inflight' = fl
    /\ UNCHANGED idx

\* The loop from position i to its next await: the dedupe query of the next
\* item with a link, or, past the last item, "Sync complete." and a normal exit
Iterate(r, i, fl) ==
    LET j == NextLinked(feed, i)
    IN  /\ idx' = [idx EXCEPT ![r] = j]
        /\ loc' = [loc EXCEPT ![r] = Null]
        /\ IF j > Len(feed)
           THEN /\ pc' = [pc EXCEPT ![r] = "exited"]
                /\ exitCode' = [exitCode EXCEPT ![r] = Num(0)]
                /\ inflight' = fl
           ELSE /\ pc' = [pc EXCEPT ![r] = "awaitQuery"]
                /\ inflight' = fl \cup {[run |-> r, kind |-> "query", idx |-> j,
                                         url |-> LinkOf(feed[j])]}
                /\ UNCHANGED exitCode

CreateArgs(l) ==
    [title |-> l.title, director |-> l.director, watchedDate |-> l.watchedDate,
     rating |-> l.rating, posterUrl |-> l.posterUrl,
     goals |-> Str(<<"certified cinephile">>), status |-> Str(<<"watched">>),
     mediaType |-> Str(<<"movie">>), format |-> Str(<<"movie">>),
     letterboxdUrl |-> l.link]

\* notionCreateMoviePage({...}) called and not awaited
CallCreateNoAwait(r, l, fl) ==
    /\ pc' = [pc EXCEPT ![r] = "sleep"]
    /\ loc' = [loc EXCEPT ![r] = l]
    /\ inflight' = fl \cup {[run |-> r, kind |-> "create", idx |-> idx[r],
                             args |-> CreateArgs(l),
                             props |-> notionCreateMoviePage(CreateArgs(l))]}
    /\ UNCHANGED <<idx, exitCode>>

\* console.log("Adding: ..."), then await notionCreateMoviePage({...})
CallCreate(r, l, fl) ==
    /\ pc' = [pc EXCEPT ![r] = "awaitCreate"]
    /\ loc' = [loc EXCEPT ![r] = l]
    /\ inflight' = fl \cup {[run |-> r, kind |-> "create", idx |-> idx[r],
                             args |-> CreateArgs(l),
                             props |-> notionCreateMoviePage(CreateArgs(l))]}
    /\ UNCHANGED <<idx, exitCode>>

CallSearch(r, l, fl) ==
    /\ pc' = [pc EXCEPT ![r] = "awaitSearch"]
    /\ loc' = [loc EXCEPT ![r] = l]
    /\ inflight' = fl \cup {[run |-> r, kind |-> "search", idx |-> idx[r],
                             title |-> l.title, year |-> l.year]}
    /\ UNCHANGED <<idx, exitCode>>

CallCredits(r, l, fl) ==
    /\ pc' = [pc EXCEPT ![r] = "awaitCredits"]
    /\ loc' = [loc EXCEPT ![r] = l]
    /\ inflight' = fl \cup {[run |-> r, kind |-> "credits", idx |-> idx[r],
                             movieId |-> l.tmdbHit.id]}
    /\ UNCHANGED <<idx, exitCode>>

\* The locals of the loop body once the item is known to be new
Locals(item) ==
    LET parsed == parseRssTitle(RawTitleOf(item))
    IN  [title |-> parsed.title, year |-> parsed.year,
         rating |-> starsToNumber(parsed.stars),
         posterUrl |-> posterFromRssDescription(DescriptionOf(item)),
         director |-> Null, watchedDate |-> WatchedDateOf(item),
         link |-> LinkOf(item), tmdbHit |-> Null]

\* node runs the script: main() up to `await fetchText(RSS_URL)`
Start(r) ==
    /\ pc[r] = "start"
    /\ pc' = [pc EXCEPT ![r] = "awaitFetch"]
    /\ inflight' = inflight \cup {[run |-> r, kind |-> "fetch", idx |-> 0]}
    /\ UNCHANGED <<feed, tmdbKey, store, idx, loc, log, exitCode, titleVars>>

\* fetchText settles (a rejected request or a non-ok status throws), then
\* xml2js parses the text (malformed XML throws), then the loop starts
FetchDone(r) ==
    /\ pc[r] = "awaitFetch"
    /\ \E c \in Pending(r, "fetch") :
       \E res \in {"reject", "status", "malformed", "ok"} :
          /\ Settle(r, [kind |-> "fetch", idx |-> 0, res |-> res])
          /\ IF res = "ok"
             THEN Iterate(r, 1, inflight \ {c})
             ELSE Abort(r, inflight \ {c})
    /\ UNCHANGED <<feed, tmdbKey, store, titleVars>>

\* The loop body after `await notionFindByLetterboxdUrl(link)` returned
\* `exists`: skip a known item, else normalize and enrich or create
QueryReturnedNoSkip(r, c, exists, fl) ==
    LET l == Locals(feed[idx[r]])
    IN  /\ Settle(r, [kind |-> "query", idx |-> c.idx,
                      res |-> IF Truthy(exists) THEN "found" ELSE "absent"])
        /\ IF Truthy(tmdbKey) THEN CallSearch(r, l, fl) ELSE CallCreate(r, l, fl)

QueryReturnedAlwaysEnrich(r, c, exists, fl) ==
    LET l == Locals(feed[idx[r]])
    IN  IF Truthy(exists)
        THEN /\ Settle(r, [kind |-> "query", idx |-> c.idx, res |-> "found"])
             /\ Iterate(r, idx[r] + 1, fl)
        ELSE /\ Settle(r, [kind |-> "query", idx |-> c.idx, res |-> "absent"])
             /\ CallSearch(r, l, fl)

QueryReturned(r, c, exists, fl) ==
    LET l == Locals(feed[idx[r]])
    IN  IF Truthy(exists)
        THEN /\ Settle(r, [kind |-> "query", idx |-> c.idx, res |-> "found"])
             /\ Iterate(r, idx[r] + 1, fl)
        ELSE /\ Settle(r, [kind |-> "query", idx |-> c.idx, res |-> "absent"])
             /\ IF Truthy(tmdbKey)
                THEN CallSearch(r, l, fl)
                ELSE CallCreate(r, l, fl)

\* The dedupe query settles: it threw, or it returned the first matching page
QueryDone(r) ==
    /\ pc[r] = "awaitQuery"
    /\ \E c \in Pending(r, "query") :
         LET fl == inflight \ {c} IN
         \/ /\ Settle(r, [kind |-> "query", idx |-> c.idx, res |-> "throw"])
            /\ Abort(r, fl)
         \/ QueryReturned(r, c, notionFindByLetterboxdUrl(c.url, store), fl)
    /\ UNCHANGED <<feed, tmdbKey, store, titleVars>>

\* tmdbSearchMovie settles
SearchDone(r) ==
    /\ pc[r] = "awaitSearch"
    /\ \E c \in Pending(r, "search") :
       \E res \in SearchResponses :
         LET fl  == inflight \ {c}
             out == tmdbSearchMovie(res)
         IN  /\ Settle(r, [kind |-> "search", idx |-> c.idx, response |-> res])
             /\ IF out = Throw
                THEN Abort(r, fl)
                ELSE LET l == [loc[r] EXCEPT !.tmdbHit = out.returned]
                     IN  IF l.tmdbHit # Null /\ Truthy(l.tmdbHit.id)
                         THEN CallCredits(r, l, fl)
                         ELSE CallCreate(r, l, fl)
    /\ UNCHANGED <<feed, tmdbKey, store, titleVars>>

\* tmdbGetDirector settles; the TMDB poster, when there is one, replaces the
\* feed's
CreditsDone(r) ==
    /\ pc[r] = "awaitCredits"
    /\ \E c \in Pending(r, "credits") :
       \E res \in CreditsResponses :
         LET fl  == inflight \ {c}
             out == tmdbGetDirector(res)
         IN  /\ Settle(r, [kind |-> "credits", idx |-> c.idx, response |-> res])
             /\ IF out = Throw
                THEN Abort(r, fl)
                ELSE LET tmdbPoster == tmdbPosterUrl(loc[r].tmdbHit.poster_path)
                         l == [loc[r] EXCEPT
                                 !.director = out.returned,
                                 !.posterUrl = IF Truthy(tmdbPoster) THEN tmdbPoster
                                               ELSE @]
                     IN  CallCreate(r, l, fl)
    /\ UNCHANGED <<feed, tmdbKey, store, titleVars>>

\* notion.pages.create settles: the page is in the database, or the call threw
CreateDone(r) ==
    /\ pc[r] = "awaitCreate"
    /\ \E c \in Pending(r, "create") :
         LET fl == inflight \ {c} IN
         \/ /\ Settle(r, [kind |-> "create", idx |-> c.idx, res |-> "throw",
                          args |-> c.args, props |-> c.props])
            /\ Abort(r, fl)
            /\ UNCHANGED store
         \/ /\ Settle(r, [kind |-> "create", idx |-> c.idx, res |-> "ok",
                          args |-> c.args, props |-> c.props])
            /\ store' = Append(store, c.props)
            /\ pc' = [pc EXCEPT ![r] = "sleep"]
            /\ inflight' = fl
            /\ UNCHANGED <<idx, loc, exitCode>>
    /\ UNCHANGED <<feed, tmdbKey, titleVars>>

\* sleep(350) is over: on to the next item
SleepDone(r) ==
    /\ pc[r] = "sleep"
    /\ Iterate(r, idx[r] + 1, inflight)
    /\ UNCHANGED <<feed, tmdbKey, store, log, titleVars>>

Step(r) ==
    \/ Start(r)
    \/ FetchDone(r)
    \/ QueryDone(r)
    \/ SearchDone(r)
    \/ CreditsDone(r)
    \/ CreateDone(r)
    \/ SleepDone(r)

----------------------------------------------------------------------------
(* Title normalisation on its own *)

TitleIdle == tIn = Null /\ tOut = Null

NormalizeTitle ==
    /\ tIn # Null
    /\ tOut = Null
    /\ tOut' = LET parsed == parseRssTitle(Str(tIn.raw))
               IN  [title |-> parsed.title, year |-> parsed.year,
                    rating |-> starsToNumber(parsed.stars)]
    /\ UNCHANGED <<tIn, runVars>>

----------------------------------------------------------------------------
(* Specifications *)

RunsIdle ==
    /\ feed = <<>>
    /\ tmdbKey = Null
    /\ store = <<>>
    /\ pc = [r \in Runs |-> "off"]
    /\ idx = [r \in Runs |-> 0]
    /\ loc = [r \in Runs |-> Null]
    /\ inflight = {}
    /\ log = [r \in Runs |-> <<>>]
    /\ exitCode = [r \in Runs |-> Null]

InitRuns(started, feeds) ==
    /\ feed \in feeds
    /\ tmdbKey \in Keys
    /\ store \in InitialStores
    /\ pc = [r \in Runs |-> IF r \in started THEN "start" ELSE "off"]
    /\ idx = [r \in Runs |-> 0]
    /\ loc = [r \in Runs |-> Null]
    /\ inflight = {}
    /\ log = [r \in Runs |-> <<>>]
    /\ exitCode = [r \in Runs |-> Null]

\* One run of the script
Init == InitRuns({1}, Feeds(MaxItems)) /\ TitleIdle

Next == \E r \in Runs : Step(r)

Spec == Init /\ [][Next]_vars

\* Two runs of the script against the same feed and the same database
InitRace == InitRuns(Runs, Feeds(MaxRaceItems)) /\ TitleIdle

SpecRace == InitRace /\ [][Next]_vars

\* parseRssTitle and starsToNumber on raw titles "T, YYYY - <stars>"
TitleChars == {"a", " ", "-", ","}

Years == {<<"1", "9", "8", "6">>, <<"2", "0", "0", "1">>}

SeqsUpTo(S, n) == UNION {[1..k -> S] : k \in 0..n}

StarStrings == SeqsUpTo({FullStar, HalfStar}, MaxStars) \ {<<>>}

\* Title texts as a feed carries them: not empty, no blank at either end
TitleTexts == {t \in SeqsUpTo(TitleChars, MaxTitleLen) : t # <<>> /\ Trim(t) = t}

InitTitle ==
    /\ RunsIdle
    /\ tOut = Null
    /\ \E t \in TitleTexts, y \in Years, st \in StarStrings :
          tIn = [t |-> t, year |-> y, stars |-> st,
                 raw |-> t \o <<",", " ">> \o y \o Separator \o st]

NextTitle == NormalizeTitle

SpecTitle == InitTitle /\ [][NextTitle]_vars

----------------------------------------------------------------------------
(* Properties *)

LogIdx(r) == 1..Len(log[r])

PageUrl(page) == page["Letterboxd URL"].url

PagesWith(url) == {i \in 1..Len(store) : PageUrl(store[i]) = url}

\* The create calls run r has issued: settled ones and the one in flight
CreateCalls(r) ==
    {log[r][k] : k \in {n \in LogIdx(r) : log[r][n].kind = "create"}}
    \cup Pending(r, "create")

Settled(r, kind, i, res) ==
    \E k \in LogIdx(r) :
        log[r][k].kind = kind /\ log[r][k].idx = i /\ log[r][k].res = res

HasLink(i) == feed[i].link # Undefined /\ feed[i].link # Str(<<>>)

\* The src of the first img node of an item's description, Null without one
FeedImage(item) ==
    LET d == item.description
    IN  IF \E i \in 1..Len(d) : d[i].tag = "img"
        THEN LET f == CHOOSE i \in 1..Len(d) :
                        d[i].tag = "img" /\ \A k \in 1..(i - 1) : d[k].tag # "img"
             IN  IF d[f].src = Str(<<>>) THEN Null ELSE d[f].src
        ELSE Null

\* C1: during a single run that starts with at most one page per link, the
\* database never holds two pages with the same Letterboxd URL, whatever the
\* feed, a feed that repeats a link included.
AtMostOnePerLink ==
    \A i, j \in 1..Len(store) : PageUrl(store[i]) = PageUrl(store[j]) => i = j

\* C1 witness: a link occurs twice in the feed, the first occurrence was
\* created and the second one's dedupe query found that page.
RepeatedLinkSkipped ==
    \E i, j \in 1..Len(feed) :
        /\ i < j
        /\ HasLink(i)
        /\ feed[i].link = feed[j].link
        /\ Settled(1, "create", i, "ok")
        /\ Settled(1, "query", j, "found")

\* C2: an item whose dedupe query found a page gets no search, credits or
\* create call, and the run goes straight on to the next item with a link (or
\* ends normally when there is none).
DedupSkip ==
    \A r \in Runs : \A k \in LogIdx(r) :
        LET e == log[r][k]
            n == NextLinked(feed, e.idx + 1)
        IN  (e.kind = "query" /\ e.res = "found") =>
            /\ \A m \in LogIdx(r) : log[r][m].idx = e.idx => log[r][m].kind = "query"
            /\ \A c \in inflight : (c.run = r /\ c.idx = e.idx) => c.kind = "query"
            /\ IF k < Len(log[r])
               THEN log[r][k + 1].kind = "query" /\ log[r][k + 1].idx = n
               ELSE \/ \E c \in Pending(r, "query") : c.idx = n
                    \/ n > Len(feed) /\ pc[r] = "exited" /\ exitCode[r] = Num(0)

\* C2 witness: a found item was skipped and the next item's query is out.
SkippedThenNext ==
    \E k \in LogIdx(1) :
        /\ log[1][k].kind = "query"
        /\ log[1][k].res = "found"
        /\ \E c \in Pending(1, "query") : c.idx > log[1][k].idx

EnrichFailed(res) == res = Rejected \/ ~res.ok \/ res.body = NotJson

\* C3: whenever a search or credits call failed (rejected request, non-ok
\* status or unparseable body), the create call of that item is still issued,
\* with an empty director, and with the feed's poster when the search failed.
EnrichmentFailureStillCreates ==
    \A r \in Runs : \A k \in LogIdx(r) :
        LET e == log[r][k]
        IN  (e.kind \in {"search", "credits"} /\ EnrichFailed(e.response)) =>
            \E c \in CreateCalls(r) :
                /\ c.idx = e.idx
                /\ c.args.director = Null
                /\ e.kind = "search" => c.args.posterUrl = FeedImage(feed[e.idx])

\* C4: with TMDB_API_KEY unset no search or credits call is ever made, and
\* every create call carries an empty director and the image of the feed
\* description, or no Image property when the description has no image.
EnrichmentDisabledNoOp ==
    ~Truthy(tmdbKey) =>
        \A r \in Runs :
            /\ \A c \in inflight : c.kind \notin {"search", "credits"}
            /\ \A k \in LogIdx(r) : log[r][k].kind \notin {"search", "credits"}
            /\ \A c \in CreateCalls(r) :
                  LET img == FeedImage(feed[c.idx])
                  IN  /\ c.props["Author"] = [rich_text |-> <<>>]
                      /\ img # Null => /\ "Image" \in DOMAIN c.props
                                       /\ c.props["Image"] = [files |-> <<[url |-> img]>>]
                      /\ img = Null => "Image" \notin DOMAIN c.props

\* C4 witness: without a key, a page with the feed's image was created.
CreatedWithoutKey ==
    /\ ~Truthy(tmdbKey)
    /\ \E k \in LogIdx(1) :
          /\ log[1][k].kind = "create"
          /\ log[1][k].res = "ok"
          /\ "Image" \in DOMAIN log[1][k].props

FixedProperties == {"Name", "Goals", "Status", "media type", "Format", "Letterboxd URL"}

\* The three optional arguments and the property each one becomes
OmitsWhenAbsent(c) ==
    /\ c.args.watchedDate = Null <=> "Date Read/Watched" \notin DOMAIN c.props
    /\ c.args.rating = Null <=> "My Rating" \notin DOMAIN c.props
    /\ c.args.posterUrl = Null <=> "Image" \notin DOMAIN c.props
    /\ c.args.watchedDate # Null =>
          c.props["Date Read/Watched"] = [date |-> [start |-> c.args.watchedDate]]
    /\ c.args.rating # Null => c.props["My Rating"] = [number |-> c.args.rating]
    /\ c.args.posterUrl # Null =>
          c.props["Image"] = [files |-> <<[url |-> c.args.posterUrl]>>]
    /\ FixedProperties \subseteq DOMAIN c.props
    /\ \A k \in DOMAIN c.props : c.props[k] # Null /\ c.props[k] # Undefined

\* C5 as claimed: in every create call each of watched date, rating, poster
\* and director is left out of the payload when absent and included when
\* present; title, URL and the four fixed fields are always there.
OmitAbsentFields ==
    \A r \in Runs : \A c \in CreateCalls(r) :
        /\ OmitsWhenAbsent(c)
        /\ c.args.director = Null <=> "Author" \notin DOMAIN c.props

\* C5 amended: watched date, rating and poster are left out when absent and
\* included when present; the director property is always sent, as an empty
\* rich text when there is no director; title, URL and the four fixed fields
\* are always there.
OmitAbsentExceptDirector ==
    \A r \in Runs : \A c \in CreateCalls(r) :
        /\ OmitsWhenAbsent(c)
        /\ "Author" \in DOMAIN c.props
        /\ c.props["Author"] = IF c.args.director = Null
                               THEN [rich_text |-> <<>>]
                               ELSE [rich_text |-> <<c.args.director>>]

\* C5 witness: a create call with no date, rating, poster or director: only
\* the fixed properties and the empty director are sent.
BarePayloadSent ==
    \E c \in CreateCalls(1) :
        /\ c.args.watchedDate = Null
        /\ c.args.rating = Null
        /\ c.args.posterUrl = Null
        /\ c.args.director = Null
        /\ DOMAIN c.props = FixedProperties \cup {"Author"}

\* C6: a run has at most one network call in flight; its calls follow feed
\* order; and while the dedupe query of an item is in flight every create
\* call of an earlier item has settled.
StrictSequencing ==
    \A r \in Runs :
        /\ Cardinality({c \in inflight : c.run = r}) <= 1
        /\ \A k, m \in LogIdx(r) : k < m => log[r][k].idx <= log[r][m].idx
        /\ \A c \in inflight : \A k \in LogIdx(r) : c.run = r => log[r][k].idx <= c.idx
        /\ \A q \in Pending(r, "query") : \A c \in CreateCalls(r) :
              c.idx < q.idx => c \notin inflight

\* C6 witness: an item's page was created and a later item's query is out.
QueryAfterCreate ==
    \E q \in Pending(1, "query") : \E i \in 1..(q.idx - 1) : Settled(1, "create", i, "ok")

\* C7: a create call that failed is the last call of the run: nothing is in
\* flight or issued after it, it is not retried, the pages created before it
\* are still in the database, and the process has exited with code 1.
CreateFailureFatal ==
    \A r \in Runs : \A k \in LogIdx(r) :
        LET e == log[r][k]
        IN  (e.kind = "create" /\ e.res = "throw") =>
            /\ k = Len(log[r])
            /\ {c \in inflight : c.run = r} = {}
            /\ \A m \in LogIdx(r) :
                  (log[r][m].kind = "create" /\ log[r][m].idx = e.idx) => m = k
            /\ \A m \in 1..(k - 1) :
                  (log[r][m].kind = "create" /\ log[r][m].res = "ok") =>
                      \E i \in 1..Len(store) : store[i] = log[r][m].props
            /\ pc[r] = "exited"
            /\ exitCode[r] = Num(1)

\* C7 witness: the second create of a run failed after the first succeeded.
SecondCreateFailed ==
    \E k, m \in LogIdx(1) :
        /\ m < k
        /\ log[1][m].kind = "create" /\ log[1][m].res = "ok"
        /\ log[1][k].kind = "create" /\ log[1][k].res = "throw"

Count(chars, ch) == Cardinality({i \in 1..Len(chars) : chars[i] = ch})

\* C8: for a raw title "T, YYYY - <stars>", parseRssTitle then starsToNumber
\* give title T, year YYYY and a rating of one per full star plus a half per
\* half star, for every T, one that holds " - " or a comma included.
TitleNormalized ==
    tOut # Null =>
        /\ tOut.title = Str(tIn.t)
        /\ tOut.year = Str(tIn.year)
        /\ tOut.rating = Num(2 * Count(tIn.stars, FullStar) + Count(tIn.stars, HalfStar))

StoreCallFailed(e) ==
    e.kind \in {"fetch", "query", "create"}
    /\ e.res \in {"reject", "status", "malformed", "throw"}

\* C9: a run whose feed fetch, feed parse, dedupe queries and create calls
\* all succeeded has exited with code 0, every item with a link having been
\* found or created exactly once, with no more creates than linked items.
CompletesWhenStoreCallsSucceed ==
    \A r \in Runs :
        (pc[r] = "exited" /\ \A k \in LogIdx(r) : ~StoreCallFailed(log[r][k])) =>
            /\ exitCode[r] = Num(0)
            /\ \A i \in 1..Len(feed) :
                  IF HasLink(i)
                  THEN Settled(r, "query", i, "found")
                       \/ Cardinality({k \in LogIdx(r) :
                              log[r][k].kind = "create" /\ log[r][k].idx = i}) = 1
                  ELSE \A k \in LogIdx(r) : log[r][k].idx # i
            /\ Cardinality({k \in LogIdx(r) : log[r][k].kind = "create"})
                  <= Cardinality({i \in 1..Len(feed) : HasLink(i)})

Creators(url) ==
    {r \in Runs : \E k \in LogIdx(r) :
        /\ log[r][k].kind = "create"
        /\ log[r][k].res = "ok"
        /\ PageUrl(log[r][k].props) = url}

SawAbsent(r, url) ==
    \E k \in LogIdx(r) :
        /\ log[r][k].kind = "query"
        /\ log[r][k].res = "absent"
        /\ feed[log[r][k].idx].link = url

\* C10: with two concurrent runs, once both have created a page for a link
\* the database holds two pages for it; and two pages for one link arise only
\* that way, each run having seen the link absent before it created.
RaceDoubleInsert ==
    \A url \in {LinkA, LinkB} :
        /\ Creators(url) = Runs => Cardinality(PagesWith(url)) = 2
        /\ Cardinality(PagesWith(url)) >= 2 =>
              /\ Creators(url) = Runs
              /\ \A r \in Runs : SawAbsent(r, url)

\* C10 witness: the database holds two pages with the same Letterboxd URL.
DuplicatePages ==
    \E i, j \in 1..Len(store) : i < j /\ PageUrl(store[i]) = PageUrl(store[j])

====
